---- MODULE Spec2Model ----
(***************************************************************************)
(* The statistics engine of the habit tracker (backend/app/routers/        *)
(* habits.py): calculate_streak, calculate_longest_streak,                 *)
(* calculate_completion_rate, is_completed_today and build_habit_response. *)
(*                                                                         *)
(* A calendar date is modelled by its day ordinal (an integer); the ISO    *)
(* string "YYYY-MM-DD" the code stores and uses as dictionary key is the   *)
(* triple <<YYYY, MM, DD>>.  Ordinal 0 is 2024-02-27, so that the window   *)
(* of the model crosses the leap day and the February/March boundary.      *)
(* The completion rate is an integer number of tenths of a percent         *)
(* (50.0 is 500).                                                          *)
(***************************************************************************)
EXTENDS Integers, Sequences, FiniteSets, TLC

\* Events are dated on the ordinals 0..MaxDay; today and the creation date
\* range over the same window.
MaxDay == 4

Days == 0..MaxDay

VARIABLES
    completions,      \* habit.completions: a set of Completion rows
    created_at,       \* habit.created_at: ISO datetime
    today,            \* the reference date of the request
    pc,               \* position inside build_habit_response
    check_date,       \* calculate_streak: the day the walk looks at
    streak,           \* calculate_streak: the count so far / current_streak
    longest_streak,   \* HabitResponse.longest_streak
    completion_rate,  \* HabitResponse.completion_rate, in tenths of a percent
    completed_today   \* HabitResponse.completed_today

vars == <<completions, created_at, today, pc, check_date, streak,
          longest_streak, completion_rate, completed_today>>

----------------------------------------------------------------------------
(* Dates and their ISO form *)

\* date.isoformat(): ordinal -> <<year, month, day>> (2024-02-01 .. 2024-03-31)
isoformat(n) ==
    IF n <= 2 THEN <<2024, 2, 27 + n>> ELSE <<2024, 3, n - 2>>

\* date.fromisoformat(): <<year, month, day>> -> ordinal
fromisoformat(s) ==
    IF s[2] = 2 THEN s[3] - 27 ELSE s[3] + 2

\* _prev_day(d) = d - timedelta(days=1)
prev_day(d) == d - 1

\* The rows of the completions table a habit can own: one row per date
\* (uq_habit_date), status completed or skipped (valid_status).
Status == {"completed", "skipped"}

Completion(d, st) == [completed_date |-> isoformat(d), status |-> st]

CompletionSets ==
    { { Completion(d, f[d]) : d \in {e \in Days : f[e] # "none"} } :
        f \in [Days -> Status \cup {"none"}] }

\* habit.created_at is an ISO datetime; created_at[:10] is its date part.
datetime_iso(d) == isoformat(d) \o <<"T08:30:00">>

date_part(s) == SubSeq(s, 1, 3)

----------------------------------------------------------------------------
(* calculate_streak *)

\* completion_map = {c.completed_date: c.status for c in completions}
completion_map(cs) ==
    [s \in {c.completed_date : c \in cs} |->
        (CHOOSE c \in cs : c.completed_date = s).status]

\* Faulty variants of the loop body, against which the properties are tested.
\* `>= 1` for `> 1` in the last test: no tolerance for a today without entry.
StreakStep_no_tolerance(m, tdy, w) ==
    LET date_str == isoformat(w.check_date) IN
    IF date_str \in DOMAIN m
    THEN [check_date |-> prev_day(w.check_date),
          streak     |-> IF m[date_str] = "completed" THEN w.streak + 1
                                                       ELSE w.streak,
          running    |-> TRUE]
    ELSE IF w.streak > 0
         THEN [w EXCEPT !.running = FALSE]
         ELSE LET cd == prev_day(w.check_date) IN
              [check_date |-> cd,
               streak     |-> w.streak,
               running    |-> ~(tdy - cd >= 1)]

\* `> 2` for `> 1` in the last test: two days of tolerance.
StreakStep_two_days(m, tdy, w) ==
    LET date_str == isoformat(w.check_date) IN
    IF date_str \in DOMAIN m
    THEN [check_date |-> prev_day(w.check_date),
          streak     |-> IF m[date_str] = "completed" THEN w.streak + 1
                                                       ELSE w.streak,
          running    |-> TRUE]
    ELSE IF w.streak > 0
         THEN [w EXCEPT !.running = FALSE]
         ELSE LET cd == prev_day(w.check_date) IN
              [check_date |-> cd,
               streak     |-> w.streak,
               running    |-> ~(tdy - cd > 2)]

\* A skipped day is treated as a day without entry.
StreakStep_skip_breaks(m, tdy, w) ==
    LET date_str == isoformat(w.check_date) IN
    IF date_str \in DOMAIN m /\ m[date_str] = "completed"
    THEN [check_date |-> prev_day(w.check_date),
          streak     |-> w.streak + 1,
          running    |-> TRUE]
    ELSE IF w.streak > 0
         THEN [w EXCEPT !.running = FALSE]
         ELSE LET cd == prev_day(w.check_date) IN
              [check_date |-> cd,
               streak     |-> w.streak,
               running    |-> ~(tdy - cd > 1)]

\* `streak = 1` for `streak += 1`.
StreakStep_no_accumulate(m, tdy, w) ==
    LET date_str == isoformat(w.check_date) IN
    IF date_str \in DOMAIN m
    THEN [check_date |-> prev_day(w.check_date),
          streak     |-> IF m[date_str] = "completed" THEN 1 ELSE w.streak,
          running    |-> TRUE]
    ELSE IF w.streak > 0
         THEN [w EXCEPT !.running = FALSE]
         ELSE LET cd == prev_day(w.check_date) IN
              [check_date |-> cd,
               streak     |-> w.streak,
               running    |-> ~(tdy - cd > 1)]

\* `check_date = _prev_day(check_date)` indented under the `completed` test:
\* a skipped day does not move the walk.
StreakStep_skip_stays(m, tdy, w) ==
    LET date_str == isoformat(w.check_date) IN
    IF date_str \in DOMAIN m
    THEN IF m[date_str] = "completed"
         THEN [check_date |-> prev_day(w.check_date),
               streak     |-> w.streak + 1,
               running    |-> TRUE]
         ELSE w
    ELSE IF w.streak > 0
         THEN [w EXCEPT !.running = FALSE]
         ELSE LET cd == prev_day(w.check_date) IN
              [check_date |-> cd,
               streak     |-> w.streak,
               running    |-> ~(tdy - cd > 1)]

\* One iteration of the `while True` loop.  w is the loop state:
\* check_date, streak, and running = FALSE once a break is taken.
StreakStep(m, tdy, w) ==
    LET date_str == isoformat(w.check_date) IN
    IF date_str \in DOMAIN m
    THEN [check_date |-> prev_day(w.check_date),
          streak     |-> IF m[date_str] = "completed" THEN w.streak + 1
                                                       ELSE w.streak,
          running    |-> TRUE]
    ELSE IF w.streak > 0
         THEN [w EXCEPT !.running = FALSE]
         ELSE LET cd == prev_day(w.check_date) IN
              [check_date |-> cd,
               streak     |-> w.streak,
               running    |-> ~(tdy - cd > 1)]

RECURSIVE StreakLoop(_, _, _)
StreakLoop(m, tdy, w) ==
    IF w.running THEN StreakLoop(m, tdy, StreakStep(m, tdy, w)) ELSE w

calculate_streak(cs, tdy) ==
    IF cs = {} THEN 0
    ELSE StreakLoop(completion_map(cs), tdy,
                    [check_date |-> tdy, streak |-> 0, running |-> TRUE]).streak

----------------------------------------------------------------------------
(* calculate_longest_streak *)

RECURSIVE sorted(_)
sorted(S) ==
    IF S = {} THEN <<>>
    ELSE LET lo == CHOOSE x \in S : \A y \in S : x <= y
         IN <<lo>> \o sorted(S \ {lo})

\* Faulty variant: `check <= curr` in the membership test, so that curr
\* itself must be a skipped date.
RECURSIVE all_skipped_checks_curr(_, _, _)
all_skipped_checks_curr(check, curr, skipped_dates) ==
    IF ~(check < curr) THEN TRUE
    ELSE LET nxt == check + 1 IN
         IF nxt <= curr /\ isoformat(nxt) \notin skipped_dates
         THEN FALSE
         ELSE all_skipped_checks_curr(nxt, curr, skipped_dates)

\* The inner `while check < curr` loop: TRUE iff it ends without a break.
RECURSIVE all_skipped(_, _, _)
all_skipped(check, curr, skipped_dates) ==
    IF ~(check < curr) THEN TRUE
    ELSE LET nxt == check + 1 IN
         IF nxt < curr /\ isoformat(nxt) \notin skipped_dates
         THEN FALSE
         ELSE all_skipped(nxt, curr, skipped_dates)

\* Faulty variant: a gap that is not bridged leaves the run as it is.
RunAfter_no_reset(completed_dates, skipped_dates, i, current) ==
    LET prev == completed_dates[i - 1]
        curr == completed_dates[i]
        gap  == curr - prev
    IN  IF gap = 1 THEN current + 1
        ELSE IF gap > 1
             THEN IF all_skipped(prev, curr, skipped_dates)
                  THEN current + 1 ELSE current
             ELSE current

\* The body of `for i in range(1, len(completed_dates))`, indices from 1.
RunAfter(completed_dates, skipped_dates, i, current) ==
    LET prev == completed_dates[i - 1]
        curr == completed_dates[i]
        gap  == curr - prev
    IN  IF gap = 1 THEN current + 1
        ELSE IF gap > 1
             THEN IF all_skipped(prev, curr, skipped_dates)
                  THEN current + 1 ELSE 1
             ELSE current

RECURSIVE LongestScan(_, _, _, _, _)
LongestScan(completed_dates, skipped_dates, i, current, longest) ==
    IF i > Len(completed_dates) THEN longest
    ELSE LET c == RunAfter(completed_dates, skipped_dates, i, current)
         IN LongestScan(completed_dates, skipped_dates, i + 1, c,
                        IF c > longest THEN c ELSE longest)

\* Faulty variant: the two early returns are missing.
calculate_longest_streak_unguarded(cs) ==
    LET completed_dates ==
            sorted({fromisoformat(c.completed_date) :
                       c \in {x \in cs : x.status = "completed"}})
        skipped_dates ==
            {c.completed_date : c \in {x \in cs : x.status = "skipped"}}
    IN  LongestScan(completed_dates, skipped_dates, 2, 1, 1)

calculate_longest_streak(cs) ==
    IF cs = {} THEN 0
    ELSE LET completed_dates ==
                 sorted({fromisoformat(c.completed_date) :
                            c \in {x \in cs : x.status = "completed"}})
             skipped_dates ==
                 {c.completed_date : c \in {x \in cs : x.status = "skipped"}}
         IN IF completed_dates = <<>> THEN 0
            ELSE LongestScan(completed_dates, skipped_dates, 2, 1, 1)

----------------------------------------------------------------------------
(* calculate_completion_rate, is_completed_today *)

\* round(num / den, 0) for num >= 0, den > 0: to nearest, ties to even.
round_half_even(num, den) ==
    LET q == num \div den
        r == num % den
    IN  IF 2 * r < den THEN q
        ELSE IF 2 * r > den THEN q + 1
        ELSE IF q % 2 = 0 THEN q ELSE q + 1

\* Faulty variants: the status test, or the creation-date test, is missing.
CountedCompletions_any_status(cs, created) ==
    {c \in cs : fromisoformat(c.completed_date) >= created}

CountedCompletions_any_date(cs, created) ==
    {c \in cs : c.status = "completed"}

\* The events counted by the generator expression of completed_count.
CountedCompletions(cs, created) ==
    {c \in cs : c.status = "completed"
                /\ fromisoformat(c.completed_date) >= created}

calculate_completion_rate(habit_created_at, cs, tdy) ==
    LET created    == fromisoformat(date_part(habit_created_at))
        total_days == (tdy - created) + 1
    IN  IF total_days <= 0 THEN 0
        ELSE round_half_even(
                 Cardinality(CountedCompletions(cs, created)) * 1000,
                 total_days)

is_completed_today(cs, tdy) ==
    \E c \in cs : c.completed_date = isoformat(tdy) /\ c.status = "completed"

----------------------------------------------------------------------------
(* build_habit_response: the four calculators, in argument order *)

Init ==
    /\ completions \in CompletionSets
    /\ created_at \in {datetime_iso(d) : d \in Days}
    /\ today \in Days
    /\ pc = "current_streak"
    /\ check_date = today
    /\ streak = 0
    /\ longest_streak = 0
    /\ completion_rate = 0
    /\ completed_today = FALSE

\* calculate_streak up to the loop: the early return, or the loop's set-up.
StreakEnter ==
    /\ pc = "current_streak"
    /\ streak' = 0
    /\ check_date' = today
    /\ pc' = IF completions = {} THEN "longest_streak" ELSE "walk"
    /\ UNCHANGED <<completions, created_at, today, longest_streak,
                   completion_rate, completed_today>>

\* One iteration of the backward walk.
StreakWalk ==
    /\ pc = "walk"
    /\ LET w == StreakStep(completion_map(completions), today,
                           [check_date |-> check_date, streak |-> streak,
                            running |-> TRUE])
       IN /\ check_date' = w.check_date
          /\ streak' = w.streak
          /\ pc' = IF w.running THEN "walk" ELSE "longest_streak"
    /\ UNCHANGED <<completions, created_at, today, longest_streak,
                   completion_rate, completed_today>>

LongestStreak ==
    /\ pc = "longest_streak"
    /\ longest_streak' = calculate_longest_streak(completions)
    /\ pc' = "completion_rate"
    /\ UNCHANGED <<completions, created_at, today, check_date, streak,
                   completion_rate, completed_today>>

CompletionRate ==
    /\ pc = "completion_rate"
    /\ completion_rate' = calculate_completion_rate(created_at, completions, today)
    /\ pc' = "completed_today"
    /\ UNCHANGED <<completions, created_at, today, check_date, streak,
                   longest_streak, completed_today>>

CompletedToday ==
    /\ pc = "completed_today"
    /\ completed_today' = is_completed_today(completions, today)
    /\ pc' = "done"
    /\ UNCHANGED <<completions, created_at, today, check_date, streak,
                   longest_streak, completion_rate>>

Next ==
    \/ StreakEnter
    \/ StreakWalk
    \/ LongestStreak
    \/ CompletionRate
    \/ CompletedToday

Spec == Init /\ [][Next]_vars

\* The creation date plays no part in the walk: the walk's progress is
\* checked with the creation date fixed.
WalkInit == Init /\ created_at = datetime_iso(0)

WalkFairSpec == WalkInit /\ [][Next]_vars /\ WF_vars(Next)

----------------------------------------------------------------------------
(* Vocabulary of the properties: the history as a calendar *)

HasEvent(d)    == \E c \in completions : c.completed_date = isoformat(d)
IsCompleted(d) == Completion(d, "completed") \in completions
IsSkipped(d)   == Completion(d, "skipped") \in completions

\* The days a walk or a scan can look at: the event window and two days
\* before it.
Calendar == (0 - 2)..(MaxDay + 1)

CompletedDays == {d \in Days : IsCompleted(d)}

CompletedIn(a, b) == Cardinality({d \in a..b : IsCompleted(d)})

created_date == fromisoformat(date_part(created_at))

\* calculate_streak has returned and current_streak is in `streak`.
StreakReturned ==
    pc \in {"longest_streak", "completion_rate", "completed_today", "done"}

LongestReturned == pc \in {"completion_rate", "completed_today", "done"}

RateReturned == pc \in {"completed_today", "done"}

\* The Completed events in the maximal run of consecutive event-bearing
\* days that ends at day e (0 when e has no event).
RunCount(e) ==
    IF ~HasEvent(e) THEN 0
    ELSE LET a == CHOOSE x \in 0..e :
                      /\ \A d \in x..e : HasEvent(d)
                      /\ ~HasEvent(x - 1)
         IN  CompletedIn(a, e)

\* The first day without an event that a walk from today meets.
FirstGap ==
    CHOOSE g \in Calendar :
        /\ g <= today
        /\ ~HasEvent(g)
        /\ \A d \in (g + 1)..today : HasEvent(d)

\* The largest number of Completed dates in a stretch of days that starts
\* and ends on a Completed date and has an event on every day: neighbouring
\* Completed dates are one day apart or have only Skipped days between them.
BestRun ==
    LET runs == {r \in Days \X Days :
                    /\ r[1] <= r[2]
                    /\ IsCompleted(r[1]) /\ IsCompleted(r[2])
                    /\ \A d \in r[1]..r[2] : HasEvent(d)}
    IN  IF runs = {} THEN 0
        ELSE LET best == CHOOSE r \in runs :
                             \A q \in runs :
                                 CompletedIn(q[1], q[2]) <= CompletedIn(r[1], r[2])
             IN CompletedIn(best[1], best[2])

\* The backward walk from today gets to day b.
WalkReaches(b) == b <= today /\ \A d \in b..(today - 1) : HasEvent(d)

----------------------------------------------------------------------------
(* Properties *)

\* C1: the longest streak is at least the current streak, for every today
\* and every history, events after today included.
C1_LongestAtLeastCurrent ==
    LongestReturned => longest_streak >= streak

C1_Witness ==
    /\ pc = "done"
    /\ streak >= 2
    /\ longest_streak > streak
    /\ \E d \in Days : d > today /\ IsCompleted(d)

\* C2 as stated: the completion rate always lies in [0.0, 100.0].
C2_RateWithinHundred ==
    completion_rate >= 0 /\ completion_rate <= 1000

\* C2 amended: the completion rate is never negative, and it is at most 100.0
\* whenever no Completed event is dated after today.
C2_RateWithinHundredUpToToday ==
    /\ completion_rate >= 0
    /\ (\A d \in Days : IsCompleted(d) => d <= today) => completion_rate <= 1000

C2_Witness ==
    /\ pc = "done"
    /\ completion_rate = 1000
    /\ created_date > 0
    /\ created_date < today
    /\ \A d \in Days : IsCompleted(d) <=> d <= today

\* C3 as stated: the first day without an event that the walk meets while
\* the streak is still zero is passed over and the day before it is checked;
\* the walk ends with streak 0 if that day has no event either and goes on
\* from it otherwise, so the result is the count of the run ending there.
C3_ToleranceAtFirstGap ==
    (StreakReturned /\ completions # {} /\ CompletedIn(FirstGap, today) = 0)
        => streak = RunCount(FirstGap - 1)

\* C3 amended: while the streak is zero, a day without an event is passed
\* over exactly when it is today (the walk then checks yesterday, ends with
\* streak 0 if yesterday has no event either and goes on from yesterday
\* otherwise); any other day without an event ends the walk with streak 0.
C3_ToleranceOnlyForToday ==
    [][(pc = "walk" /\ streak = 0)
       => IF HasEvent(check_date)
          THEN pc' = "walk" /\ check_date' = check_date - 1
          ELSE IF check_date = today
               THEN pc' = "walk" /\ check_date' = today - 1 /\ streak' = 0
               ELSE pc' = "longest_streak" /\ streak' = 0]_vars

C3_Witness ==
    /\ pc = "walk"
    /\ ~HasEvent(today)
    /\ check_date = today - 2
    /\ streak = 1

\* C4: the longest streak is 0 without a Completed event and otherwise the
\* size of the largest chain of Completed dates whose neighbours are one day
\* apart or separated by Skipped days only.
C4_LongestIsBestRun ==
    LongestReturned => longest_streak = BestRun

C4_Witness ==
    /\ pc = "done"
    /\ longest_streak = 2
    /\ IsCompleted(0) /\ IsSkipped(1) /\ IsCompleted(2)
    /\ ~HasEvent(3) /\ IsCompleted(4)

\* C5: a streak never exceeds the number of Completed events, and two
\* Completed dates with only Skipped days between them are counted in one run
\* by the longest streak and, when the walk reaches the later one, by the
\* current streak.
C5_SkipsTransparent ==
    LongestReturned =>
        /\ streak <= Cardinality(CompletedDays)
        /\ longest_streak <= Cardinality(CompletedDays)
        /\ \A a, b \in CompletedDays :
               (a < b /\ \A d \in (a + 1)..(b - 1) : IsSkipped(d)) =>
                   /\ longest_streak >= 2
                   /\ WalkReaches(b) => streak >= CompletedIn(a, today)

C5_Witness ==
    /\ pc = "done"
    /\ \E a, b \in CompletedDays :
           /\ a + 1 < b
           /\ \A d \in (a + 1)..(b - 1) : IsSkipped(d)
           /\ WalkReaches(b)
           /\ streak = 2
    /\ \E d \in Days : d <= today /\ IsSkipped(d)

\* C6: adding a Completed event on a day that has none never lowers the
\* current streak, and raises it when that day is the one the walk stopped at
\* after counting had started.
C6_StreakMonotone ==
    StreakReturned =>
        \A d \in Calendar :
            ~HasEvent(d) =>
                LET more == calculate_streak(
                                completions \cup {Completion(d, "completed")}, today)
                IN  /\ more >= streak
                    /\ (streak > 0 /\ d = check_date) => more > streak

C6_Witness ==
    /\ pc = "done"
    /\ streak > 0
    /\ check_date \in Days
    /\ calculate_streak(
           completions \cup {Completion(check_date, "completed")}, today)
       >= streak + 2

\* C7: the completion rate is 0.0 when today is before the creation date and
\* otherwise k / totalDays * 100 rounded to one decimal, k the Completed
\* events on or after the creation date; Skipped events and Completed events
\* before the creation date do not change it.
C7_RateValue ==
    RateReturned =>
        LET total_days == (today - created_date) + 1
            k == Cardinality({d \in CompletedDays : d >= created_date})
            kept == {c \in completions :
                        /\ c.status = "completed"
                        /\ fromisoformat(c.completed_date) >= created_date}
        IN  /\ total_days <= 0 => completion_rate = 0
            /\ total_days > 0 =>
                   /\ 2 * (completion_rate * total_days - 1000 * k) <= total_days
                   /\ 2 * (1000 * k - completion_rate * total_days) <= total_days
            /\ completion_rate = calculate_completion_rate(created_at, kept, today)

C7_Witness ==
    /\ pc = "done"
    /\ completion_rate = 667
    /\ \E d \in Days : d < created_date /\ IsCompleted(d)
    /\ \E d \in Days : d >= created_date /\ d <= today /\ IsSkipped(d)

\* C8: an empty history gives current streak 0, longest streak 0, completion
\* rate 0.0 and completed-today false, whatever today and the creation date.
C8_EmptyHistory ==
    (pc = "done" /\ completions = {}) =>
        /\ streak = 0
        /\ longest_streak = 0
        /\ completion_rate = 0
        /\ completed_today = FALSE

C8_Witness ==
    /\ pc = "done"
    /\ completions = {}
    /\ created_date < today

\* C9: the only day without an event that the walk passes over is today, so
\* the current streak is the number of Completed events in the run of
\* event-bearing days that ends at today, or at yesterday when today has no
\* event.
C9_ToleranceOnlyAtStart ==
    /\ pc = "walk" =>
           \A d \in (check_date + 1)..today : HasEvent(d) \/ d = today
    /\ StreakReturned =>
           streak = RunCount(IF HasEvent(today) THEN today ELSE today - 1)

C9_Witness ==
    /\ pc = "done"
    /\ ~HasEvent(today)
    /\ streak = 1
    /\ IsCompleted(today - 1)
    /\ ~HasEvent(today - 2)
    /\ IsCompleted(today - 3)

\* C10: the walk ends, also over a history of Skipped events only, and it
\* ends only on a day that has no event.
C10_WalkTerminates ==
    /\ <>(pc = "done")
    /\ [][(pc = "walk" /\ pc' # "walk") => ~HasEvent(check_date)]_vars

C10_Witness ==
    /\ pc = "done"
    /\ completions # {}
    /\ \A c \in completions : c.status = "skipped"
    /\ HasEvent(today)
    /\ check_date < 0

====
